---- MODULE Spec2Model ----
(***************************************************************************)
(* A model of the object-binding core of pwFoo/bound:                      *)
(*   src/src/bound/base.ts    BaseBound  (abstract coordinator)            *)
(*   src/src/bound/simple.ts  SimpleBound (concrete variant)               *)
(* The JavaScript the TypeScript erases to is what is modelled: values are *)
(* tagged records, plain objects and class instances live in two heaps,    *)
(* and every call ends either by returning a value or by throwing.         *)
(* Binding ('../binding'), BoundError and config are not part of the two   *)
(* source files; Binding is modelled from its description.                 *)
(***************************************************************************)
EXTENDS Integers, Sequences, FiniteSets, TLC

\* Bounds of the model: how many plain objects (boundObjects included) and
\* how many BaseBound instances the heaps may hold.
MaxObjs == 2
MaxInsts == 1

VARIABLES
    debug,   \* config.debug, the process-wide flag read through BaseBound.config
    objs,    \* heap of plain objects: a sequence, ObjRef(n) names objs[n]
    insts,   \* heap of BaseBound instances: a sequence, InstRef(n) names insts[n]
    last     \* the most recent call: what was called, with what, and how it ended

vars == <<debug, objs, insts, last>>

----------------------------------------------------------------------------
\* JavaScript values

Undefined == [t |-> "undef", id |-> 0]
Null == [t |-> "null", id |-> 0]
Absent == [t |-> "absent", id |-> 0]
Num(n) == [t |-> "num", id |-> n]
Bool(b) == [t |-> "bool", id |-> IF b THEN 1 ELSE 0]
ObjRef(n) == [t |-> "obj", id |-> n]
InstRef(n) == [t |-> "inst", id |-> n]

ObjRefs(os) == {ObjRef(n) : n \in 1..Len(os)}
InstRefs(is) == {InstRef(n) : n \in 1..Len(is)}

\* The property names the model tracks, in the order a for-in loop meets them.
KeyOrder == <<"a", "b", "c", "__bound__">>
Keys == {KeyOrder[n] : n \in 1..Len(KeyOrder)}

EmptyFields == [k \in Keys |-> Absent]

\* An object literal: own data properties, all enumerable.
Literal(f) == [f |-> f, ne |-> {}]

\* The errors a call can end with.
ErrNone == "none"
ErrOnlyObject == "BoundError: Only object binds are allowed."
ErrRebind == "BoundError: Cannot rebind a bound object."
ErrNotImplemented == "BoundError: Method not implemented."
ErrType == "TypeError"
ErrSyntax == "SyntaxError"

\* typeof v
TypeOf(v) ==
    CASE v.t = "undef" -> "undefined"
      [] v.t = "null" -> "object"
      [] v.t = "num" -> "number"
      [] v.t = "bool" -> "boolean"
      [] OTHER -> "object"

\* !!v
Truthy(v) ==
    CASE v.t \in {"undef", "null", "absent"} -> FALSE
      [] v.t \in {"num", "bool"} -> v.id # 0
      [] OTHER -> TRUE

\* v instanceof BaseBound: only what `new` made from BaseBound or a subclass.
InstanceOfBaseBound(v) == v.t = "inst"

\* v[k]: reading a property of undefined or null throws; a primitive or a
\* class instance has none of the tracked keys.
GetProp(os, v, k) ==
    IF v.t \in {"undef", "null"} THEN [err |-> ErrType, val |-> Undefined]
    ELSE IF v.t = "obj" /\ os[v.id].f[k] # Absent
         THEN [err |-> ErrNone, val |-> os[v.id].f[k]]
    ELSE [err |-> ErrNone, val |-> Undefined]

\* target[k] = val in strict mode: only an object takes the assignment; the
\* expando properties of a class instance are not tracked.
SetProp(os, target, k, val) ==
    IF target.t = "obj"
    THEN [err |-> ErrNone,
          objs |-> [os EXCEPT ![target.id].f[k] = val]]
    ELSE IF target.t = "inst" THEN [err |-> ErrNone, objs |-> os]
    ELSE [err |-> ErrType, objs |-> os]

\* Object.defineProperty(o, k, {value: v, writable: true}): an attribute the
\* descriptor leaves out keeps its value on an existing property and is false
\* on a new one.
DefineProperty(o, k, v) ==
    [f |-> [o.f EXCEPT ![k] = v],
     ne |-> IF o.f[k] = Absent THEN o.ne \cup {k} ELSE o.ne]

\* How a call ends: the heaps it leaves, the error it threw, the value it returned.
Ok(os, is, r) == [objs |-> os, insts |-> is, err |-> ErrNone, ret |-> r]
Throw(os, is, e) == [objs |-> os, insts |-> is, err |-> e, ret |-> Undefined]

----------------------------------------------------------------------------
\* Binding ('../binding'): one tracked value and its ordered (target, key)
\* mirrors.  A storage leaf holds its Binding by value: a Binding is owned by
\* exactly one leaf.

EmptyCell ==
    [t |-> "absent", twoWay |-> FALSE, value |-> Undefined,
     masters |-> <<>>, sub |-> <<>>]

\* storage = {} (base.ts:39, simple.ts:9)
EmptyStorage == [k \in Keys |-> EmptyCell]

\* new Binding(twoWay, initialValue)
NewBinding(twoWay, v) ==
    [t |-> "binding", twoWay |-> twoWay, value |-> v,
     masters |-> <<>>, sub |-> <<>>]

\* A nested storage tree stored at a composite key.
TreeCell(st) ==
    [t |-> "tree", twoWay |-> FALSE, value |-> Undefined,
     masters |-> <<>>, sub |-> st]

\* binding.addMasterBinding(target, key): target[key] takes the current value
\* at once, and (target, key) joins the mirrors.
AddMasterBinding(os, b, target, key) ==
    LET s == SetProp(os, target, key, b.value)
    IN  IF s.err # ErrNone
        THEN [err |-> s.err, objs |-> os, binding |-> b]
        ELSE [err |-> ErrNone, objs |-> s.objs,
              binding |-> [b EXCEPT !.masters = Append(@, <<target, key>>)]]

\* The mirror updates of a value write, in registration order from mirror n on.
RECURSIVE Propagate(_, _, _, _)
Propagate(os, masters, n, v) ==
    IF n > Len(masters) THEN os
    ELSE Propagate(SetProp(os, masters[n][1], masters[n][2], v).objs,
                   masters, n + 1, v)

\* binding.value = v: the tracked value, then every mirror.
SetValue(os, b, v) ==
    [objs |-> Propagate(os, b.masters, 1, v),
     binding |-> [b EXCEPT !.value = v]]

----------------------------------------------------------------------------
\* BaseBound (base.ts)

\* A variant of isBound that forgets the instanceof test.
IsBoundAnyTruthy(os, v) ==
    LET g == GetProp(os, v, "__bound__")
    IN  IF g.err # ErrNone THEN [err |-> g.err, ret |-> Undefined]
        ELSE [err |-> ErrNone, ret |-> Bool(Truthy(g.val))]

\* static isBound(obj): !!obj.__bound__ && (obj.__bound__ instanceof BaseBound)
IsBound(os, v) ==
    LET g == GetProp(os, v, "__bound__")
    IN  IF g.err # ErrNone THEN [err |-> g.err, ret |-> Undefined]
        ELSE [err |-> ErrNone,
              ret |-> Bool(Truthy(g.val) /\ InstanceOfBaseBound(g.val))]

\* The fields an instance has: storage (base.ts:39), boundObject (base.ts:46)
\* and the parameter property plugins (base.ts:53).
InstFields == {"storage", "boundObject", "plugins"}

\* new.target's field initialisers and the constructor body of BaseBound.
\* A construction that throws leaves nothing the caller can reach, so the
\* heaps are then as before the call.
BaseBoundCtor(os, is, dbg, proto, plugins, cls) ==
    LET this == InstRef(Len(is) + 1)
        bo == ObjRef(Len(os) + 1)
        \* boundObject = { __bound__: this }
        lit == Literal([EmptyFields EXCEPT !["__bound__"] = this])
        \* Object.defineProperty(this.boundObject, '__bound__', ...)
        os1 == Append(os, DefineProperty(lit, "__bound__", this))
        is1 == Append(is, [cls |-> cls, storage |-> EmptyStorage,
                           boundObject |-> bo, plugins |-> plugins])
        chk == IsBound(os1, proto)
    IN  IF dbg /\ TypeOf(proto) # "object"
        THEN Throw(os, is, ErrOnlyObject)
        \* debug && proto instanceof BaseBound || BaseBound.isBound(proto)
        ELSE IF dbg /\ InstanceOfBaseBound(proto)
        THEN Throw(os, is, ErrRebind)
        ELSE IF chk.err # ErrNone
        THEN Throw(os, is, chk.err)
        ELSE IF chk.ret = Bool(TRUE)
        THEN Throw(os, is, ErrRebind)
        ELSE Ok(os1, is1, this)

\* A variant of bindAndMap that only refuses in debug mode.
BindAndMapDebugGated(os, is, dbg, this, obj, map) ==
    IF dbg THEN Throw(os, is, ErrNotImplemented) ELSE Ok(os, is, this)

\* bindAndMap(obj, mapToOriginal, twoWay)
BindAndMap(os, is, dbg, this, obj, map) == Throw(os, is, ErrNotImplemented)

----------------------------------------------------------------------------
\* SimpleBound (simple.ts)

\* this.bound / bound.bound: a field of that name would be read, and the class
\* has none, so the read gives undefined.
BoundOf(is, r) ==
    IF "bound" \in InstFields THEN is[r.id].boundObject ELSE Undefined

\* JSON.stringify(v) throws on a cycle.  Object literals only refer to what
\* existed before them; the one cycle is instance -> boundObject -> __bound__
\* -> instance, taken when __bound__ is enumerable.
RECURSIVE JsonThrows(_, _, _)
JsonThrows(os, is, v) ==
    CASE v.t = "inst" ->
            \/ "__bound__" \notin os[is[v.id].boundObject.id].ne
            \/ JsonThrows(os, is, is[v.id].plugins)
      [] v.t = "obj" ->
            \E k \in Keys \ os[v.id].ne :
                os[v.id].f[k] # Absent /\ JsonThrows(os, is, os[v.id].f[k])
      [] OTHER -> FALSE

\* JSON.parse(JSON.stringify(v)): the enumerable, defined own properties of a
\* fresh copy (a property holding a reference holds the copy of its referent);
\* undefined does not parse; null and the primitives have no properties.
JsonRoundTrip(os, is, v) ==
    IF v.t = "undef" THEN [err |-> ErrSyntax, fields |-> EmptyFields]
    ELSE IF JsonThrows(os, is, v) THEN [err |-> ErrType, fields |-> EmptyFields]
    ELSE IF v.t = "obj"
    THEN [err |-> ErrNone,
          fields |-> [k \in Keys |->
                        IF k \in os[v.id].ne \/ os[v.id].f[k] = Undefined
                        THEN Absent ELSE os[v.id].f[k]]]
    ELSE [err |-> ErrNone, fields |-> EmptyFields]

RECURSIVE SimpleBoundCtor(_, _, _, _)
RECURSIVE SimpleBoundLoop(_, _, _, _, _, _)

\* for (const key in original) { ... }, from the n-th key on.  The child's
\* storage tree is held by value: the child instance itself is dropped.
SimpleBoundLoop(os, is, dbg, this, original, n) ==
    IF n > Len(KeyOrder) THEN Ok(os, is, this)
    ELSE
      LET key == KeyOrder[n]
          v == original[key]
      IN  IF v = Absent
          THEN SimpleBoundLoop(os, is, dbg, this, original, n + 1)
          ELSE IF TypeOf(v) = "object"
          THEN
            LET child == SimpleBoundCtor(os, is, dbg, v)
                \* this.bound[key] = bound.bound
                set == SetProp(child.objs, BoundOf(child.insts, this), key,
                               BoundOf(child.insts, child.ret))
                \* this.storage[key] = bound.storage
                is2 == [child.insts EXCEPT ![this.id].storage[key] =
                            TreeCell(child.insts[child.ret.id].storage)]
            IN  IF child.err # ErrNone THEN Throw(os, is, child.err)
                ELSE IF set.err # ErrNone THEN Throw(os, is, set.err)
                ELSE SimpleBoundLoop(set.objs, is2, dbg, this, original, n + 1)
          ELSE
            LET \* binding.addMasterBinding(this.bound, key)
                am == AddMasterBinding(os, NewBinding(TRUE, v),
                                       BoundOf(is, this), key)
                \* this.storage[key] = binding
                is2 == [is EXCEPT ![this.id].storage[key] = am.binding]
            IN  IF am.err # ErrNone THEN Throw(os, is, am.err)
                ELSE SimpleBoundLoop(am.objs, is2, dbg, this, original, n + 1)

\* new SimpleBound(obj): super() hands BaseBound no prototype and no plugins.
SimpleBoundCtor(os, is, dbg, obj) ==
    LET sup == BaseBoundCtor(os, is, dbg, Undefined, Undefined, "SimpleBound")
        original == JsonRoundTrip(sup.objs, sup.insts, obj)
        body == SimpleBoundLoop(sup.objs, sup.insts, dbg, sup.ret,
                                original.fields, 1)
    IN  IF sup.err # ErrNone THEN Throw(os, is, sup.err)
        ELSE IF original.err # ErrNone THEN Throw(os, is, original.err)
        ELSE IF body.err # ErrNone THEN Throw(os, is, body.err)
        ELSE body

\* for (const key in this.storage) storage[key].addMasterBinding(obj, key),
\* from the n-th key on.  A nested tree is a plain object and has no such
\* method.  The body has no return statement.
RECURSIVE SimpleBind(_, _, _, _, _)
SimpleBind(os, is, this, obj, n) ==
    IF n > Len(KeyOrder) THEN Ok(os, is, Undefined)
    ELSE
      LET key == KeyOrder[n]
          cell == is[this.id].storage[key]
          am == AddMasterBinding(os, cell, obj, key)
          is2 == [is EXCEPT ![this.id].storage[key] = am.binding]
      IN  IF cell.t = "absent" THEN SimpleBind(os, is, this, obj, n + 1)
          ELSE IF cell.t # "binding" THEN Throw(os, is, ErrType)
          ELSE IF am.err # ErrNone THEN Throw(os, is, am.err)
          ELSE SimpleBind(am.objs, is2, this, obj, n + 1)

\* instance.bind(obj): BaseBound declares bind abstract, which leaves no
\* method behind; only SimpleBound defines one.
Bind(os, is, this, obj) ==
    IF is[this.id].cls = "SimpleBound" THEN SimpleBind(os, is, this, obj, 1)
    ELSE Throw(os, is, ErrType)

\* instance.unbind(obj): BaseBound declares unbind abstract and SimpleBound
\* defines none, so no instance has the method.
Unbind(os, is, this, obj) == Throw(os, is, ErrType)

----------------------------------------------------------------------------
\* The calls a client makes

Call(op, recv, arg, r) ==
    [op |-> op, recv |-> recv, arg |-> arg, err |-> r.err, ret |-> r.ret]

\* The values a client passes.
Args == {Undefined, Null, Num(1)} \cup ObjRefs(objs) \cup InstRefs(insts)

\* The object literals a client writes: {}, {a: 1}, {c: 2}, {a: 1, b: o} for an
\* object o it holds, and objects with a __bound__ field of their own (null, 0,
\* a number, an instance).
Shapes ==
    {EmptyFields,
     [EmptyFields EXCEPT !["a"] = Num(1)],
     [EmptyFields EXCEPT !["c"] = Num(2)]}
    \cup {[EmptyFields EXCEPT !["a"] = Num(1), !["b"] = o] : o \in ObjRefs(objs)}
    \cup {[EmptyFields EXCEPT !["__bound__"] = v] :
            v \in {Null, Num(0), Num(1)} \cup InstRefs(insts)}

Fits(r) == Len(r.objs) <= MaxObjs /\ Len(r.insts) <= MaxInsts

Init ==
    /\ debug \in BOOLEAN
    /\ objs = <<>>
    /\ insts = <<>>
    /\ last = Call("start", Undefined, Undefined, Ok(objs, insts, Undefined))

\* config.debug = b
SetDebug(b) ==
    /\ b # debug
    /\ debug' = b
    /\ last' = Call("config.debug", Undefined, Bool(b), Ok(objs, insts, Undefined))
    /\ UNCHANGED <<objs, insts>>

\* const o = { ... }
NewObject(f) ==
    /\ Len(objs) < MaxObjs
    /\ objs' = Append(objs, Literal(f))
    /\ last' = Call("literal", Undefined, Undefined,
                    Ok(objs', insts, ObjRef(Len(objs) + 1)))
    /\ UNCHANGED <<debug, insts>>

\* new BaseBound(proto), as the class itself or a subclass's super(proto) runs it
NewBaseBound(proto) ==
    LET r == BaseBoundCtor(objs, insts, debug, proto, Undefined, "BaseBound")
    IN  /\ Fits(r)
        /\ objs' = r.objs
        /\ insts' = r.insts
        /\ last' = Call("new BaseBound", Undefined, proto, r)
        /\ UNCHANGED debug

\* new SimpleBound(obj)
NewSimpleBound(obj) ==
    LET r == SimpleBoundCtor(objs, insts, debug, obj)
    IN  /\ Fits(r)
        /\ objs' = r.objs
        /\ insts' = r.insts
        /\ last' = Call("new SimpleBound", Undefined, obj, r)
        /\ UNCHANGED debug

\* instance.bind(obj)
CallBind(this, obj) ==
    LET r == Bind(objs, insts, this, obj)
    IN  /\ objs' = r.objs
        /\ insts' = r.insts
        /\ last' = Call("bind", this, obj, r)
        /\ UNCHANGED debug

\* instance.bindAndMap(obj, mapToOriginal)
CallBindAndMap(this, obj, map) ==
    LET r == BindAndMap(objs, insts, debug, this, obj, map)
    IN  /\ objs' = r.objs
        /\ insts' = r.insts
        /\ last' = Call("bindAndMap", this, obj, r)
        /\ UNCHANGED debug

\* instance.unbind(obj)
CallUnbind(this, obj) ==
    LET r == Unbind(objs, insts, this, obj)
    IN  /\ objs' = r.objs
        /\ insts' = r.insts
        /\ last' = Call("unbind", this, obj, r)
        /\ UNCHANGED debug

\* BaseBound.isBound(v)
CallIsBound(v) ==
    LET r == IsBound(objs, v)
    IN  /\ last' = Call("isBound", Undefined, v, r)
        /\ UNCHANGED <<debug, objs, insts>>

Next ==
    \/ \E b \in BOOLEAN : SetDebug(b)
    \/ \E f \in Shapes : NewObject(f)
    \/ \E proto \in Args : NewBaseBound(proto)
    \/ \E obj \in Args : NewSimpleBound(obj)
    \/ \E this \in InstRefs(insts), obj \in Args : CallBind(this, obj)
    \/ \E this \in InstRefs(insts), obj \in Args, map \in ObjRefs(objs) :
            CallBindAndMap(this, obj, map)
    \/ \E this \in InstRefs(insts), obj \in Args : CallUnbind(this, obj)
    \/ \E v \in Args : CallIsBound(v)

Spec == Init /\ [][Next]_vars

----------------------------------------------------------------------------
\* Vocabulary of the claims

\* v is a plain, not-yet-bound data object: an object literal of numbers and
\* of nested plain data objects, with no __bound__ field anywhere.
RECURSIVE PlainData(_, _)
PlainData(os, v) ==
    /\ v.t = "obj"
    /\ os[v.id].f["__bound__"] = Absent
    /\ \A k \in Keys \ {"__bound__"} :
          \/ os[v.id].f[k].t \in {"absent", "num"}
          \/ PlainData(os, os[v.id].f[k])

\* The keys of data object v that hold a primitive, and those that hold an object.
PrimitiveKeys(os, v) == {k \in Keys : os[v.id].f[k].t = "num"}
ObjectKeys(os, v) == {k \in Keys : os[v.id].f[k].t = "obj"}

\* The last call was new SimpleBound(o) on a plain data object o.
BuiltFromPlainData == last.op = "new SimpleBound" /\ PlainData(objs, last.arg)

\* The values a client writes through a Binding.
Written == {Num(1), Num(2)}

\* obj carries a non-falsy __bound__ that is a constructed BaseBound instance.
CarriesBackRef(obj) == objs[obj.id].f["__bound__"] \in InstRefs(insts)

----------------------------------------------------------------------------
\* C1 (as claimed): write propagation.  A SimpleBound built from plain data
\* exists, and after any bind(target) on it a write of v through the Binding
\* of a primitive key k leaves boundObject[k] and target[k] equal to v.
C1_WritePropagates ==
    BuiltFromPlainData =>
        /\ last.err = ErrNone
        /\ \A target \in ObjRefs(objs), k \in PrimitiveKeys(objs, last.arg),
              v \in Written :
              LET b == Bind(objs, insts, last.ret, target)
                  w == SetValue(b.objs, b.insts[last.ret.id].storage[k], v)
                  bo == insts[last.ret.id].boundObject
              IN  /\ b.err = ErrNone
                  /\ w.binding.value = v
                  /\ w.objs[bo.id].f[k] = v
                  /\ w.objs[target.id].f[k] = v

\* C2 (as claimed): synchronization on registration.  A SimpleBound built
\* from plain data exists, and right after bind(target) returns, target[k]
\* and boundObject[k] both hold the Binding's value for every primitive key k.
C2_BindSynchronizes ==
    BuiltFromPlainData =>
        /\ last.err = ErrNone
        /\ \A target \in ObjRefs(objs), k \in PrimitiveKeys(objs, last.arg) :
              LET b == Bind(objs, insts, last.ret, target)
                  bo == insts[last.ret.id].boundObject
              IN  /\ b.err = ErrNone
                  /\ b.objs[target.id].f[k] = b.insts[last.ret.id].storage[k].value
                  /\ b.objs[target.id].f[k] = b.objs[bo.id].f[k]

\* C3 (as claimed): new SimpleBound(o) on a plain, not-yet-bound data object
\* raises no error, with debug enabled and with it disabled.
C3_PlainConstructionSucceeds ==
    BuiltFromPlainData => last.err = ErrNone /\ last.ret.t = "inst"

\* C4 (as claimed): after new SimpleBound(o), every primitive key k of the
\* snapshot has a Binding at storage[k] whose value is the snapshot value,
\* boundObject[k] holds that value, and boundObject is the first mirror.
C4_StorageHoldsSnapshot ==
    BuiltFromPlainData =>
        /\ last.err = ErrNone
        /\ \A k \in PrimitiveKeys(objs, last.arg) :
              LET cell == insts[last.ret.id].storage[k]
                  bo == insts[last.ret.id].boundObject
              IN  /\ cell.t = "binding"
                  /\ cell.value = objs[last.arg.id].f[k]
                  /\ objs[bo.id].f[k] = cell.value
                  /\ Len(cell.masters) >= 1 /\ cell.masters[1] = <<bo, k>>

\* C5 (as claimed): bind is shallow.  On a SimpleBound whose storage holds
\* Bindings and nested trees, bind(obj) returns without raising, registers
\* (obj, k) for the Binding keys only and leaves obj's other keys untouched.
C5_BindIsShallow ==
    (BuiltFromPlainData /\ ObjectKeys(objs, last.arg) # {}) =>
        /\ last.err = ErrNone
        /\ \A obj \in ObjRefs(objs) :
              LET b == Bind(objs, insts, last.ret, obj)
                  st == b.insts[last.ret.id].storage
              IN  /\ b.err = ErrNone
                  /\ \A k \in Keys :
                        IF st[k].t = "binding"
                        THEN st[k].masters[Len(st[k].masters)] = <<obj, k>>
                        ELSE b.objs[obj.id].f[k] = objs[obj.id].f[k]

\* C6 (as claimed): nested construction.  For every object-valued key k of
\* the snapshot, storage[k] is the child's storage tree, not a Binding, and
\* boundObject[k] is the child's mirror, holding the child's values.
C6_NestedConstruction ==
    (BuiltFromPlainData /\ ObjectKeys(objs, last.arg) # {}) =>
        /\ last.err = ErrNone
        /\ \A k \in ObjectKeys(objs, last.arg) :
              LET cell == insts[last.ret.id].storage[k]
                  bo == insts[last.ret.id].boundObject
                  child == objs[last.arg.id].f[k]
              IN  /\ cell.t = "tree"
                  /\ objs[bo.id].f[k].t = "obj"
                  /\ \A c \in PrimitiveKeys(objs, child) :
                        /\ cell.sub[c].t = "binding"
                        /\ cell.sub[c].value = objs[child.id].f[c]
                        /\ objs[objs[bo.id].f[k].id].f[c] = objs[child.id].f[c]

\* C7: isBound(obj) is true exactly when obj carries a non-falsy __bound__
\* that is a BaseBound instance: true for the boundObject of every
\* constructed instance, false for an object with no __bound__, with a falsy
\* one or with one that is no BaseBound (an instance itself carries none);
\* and the call returns just that.
C7_IsBoundIffBackRef ==
    /\ \A obj \in ObjRefs(objs) :
          /\ IsBound(objs, obj).err = ErrNone
          /\ IsBound(objs, obj).ret = Bool(CarriesBackRef(obj))
    /\ \A n \in 1..Len(insts) :
          /\ IsBound(objs, insts[n].boundObject).ret = Bool(TRUE)
          /\ IsBound(objs, InstRef(n)) = [err |-> ErrNone, ret |-> Bool(FALSE)]
    /\ (last.op = "isBound" /\ last.arg.t = "obj") =>
          last.err = ErrNone /\ last.ret = Bool(CarriesBackRef(last.arg))

\* C7's case: isBound has just answered true for a boundObject while the heap
\* also holds an object whose __bound__ is a number, for which it answers false.
C7_Witness ==
    /\ last.op = "isBound"
    /\ last.ret = Bool(TRUE)
    /\ \E n \in 1..Len(insts) : insts[n].boundObject = last.arg
    /\ \E obj \in ObjRefs(objs) :
          /\ objs[obj.id].f["__bound__"] = Num(1)
          /\ IsBound(objs, obj).ret = Bool(FALSE)

\* C8 (as claimed): with debug enabled, new SimpleBound(x) on an already-bound
\* object or on a BaseBound instance fails with 'Cannot rebind a bound object.'
\* and with no other error.
C8_RebindRejected ==
    (/\ last.op = "new SimpleBound"
     /\ debug
     /\ \/ last.arg.t = "inst"
        \/ last.arg.t = "obj" /\ CarriesBackRef(last.arg))
    => last.err = ErrRebind

\* C9 (as claimed): both validation failures are gated by the debug flag.
\* With debug disabled new BaseBound(proto) raises neither BoundError; with
\* debug enabled a non-object proto fails with 'Only object binds are allowed.'
C9_ValidationGatedByDebug ==
    last.op = "new BaseBound" =>
        /\ ~debug => last.err \notin {ErrOnlyObject, ErrRebind}
        /\ (debug /\ TypeOf(last.arg) # "object") => last.err = ErrOnlyObject

\* C10: every bindAndMap call fails with 'Method not implemented.', whatever
\* the debug flag, the instance and the arguments, and changes neither heap.
C10_BindAndMapNotImplemented ==
    [][last'.op = "bindAndMap" =>
          /\ last'.err = ErrNotImplemented
          /\ objs' = objs
          /\ insts' = insts]_vars

\* C10's case: bindAndMap has just failed so with debug disabled.
C10_Witness ==
    /\ last.op = "bindAndMap"
    /\ ~debug
    /\ last.err = ErrNotImplemented
    /\ last.arg.t = "obj"

----------------------------------------------------------------------------
\* Vocabulary of the claims about a constructed SimpleBound

\* A write of v through the Binding at key k of instance this.
WriteKey(os, is, this, k, v) ==
    LET w == SetValue(os, is[this.id].storage[k], v)
    IN  [objs |-> w.objs,
         insts |-> [is EXCEPT ![this.id].storage[k] = w.binding]]

\* The objects other than the one the last call was given and the
\* boundObjects: what a client may bind as a target.
Targets == {o \in ObjRefs(objs) :
              /\ o # last.arg
              /\ \A n \in 1..Len(insts) : insts[n].boundObject # o}

\* Every (target, key) registered with a Binding of storage st, target an
\* object of the heap, holds the Binding's current value.
RECURSIVE MirrorsHold(_, _)
MirrorsHold(os, st) ==
    \A k \in Keys :
        /\ st[k].t = "binding" =>
              \A n \in 1..Len(st[k].masters) :
                  st[k].masters[n][1].t = "obj" =>
                      GetProp(os, st[k].masters[n][1], st[k].masters[n][2]).val
                          = st[k].value
        /\ st[k].t = "tree" => MirrorsHold(os, st[k].sub)

\* Storage tree st has the keys and the nesting of data object v: a Binding at
\* a primitive key, a tree at an object key, nothing elsewhere.
RECURSIVE Congruent(_, _, _)
Congruent(os, st, v) ==
    \A k \in Keys :
        CASE os[v.id].f[k].t = "num" -> st[k].t = "binding"
          [] os[v.id].f[k].t = "obj" ->
                st[k].t = "tree" /\ Congruent(os, st[k].sub, os[v.id].f[k])
          [] OTHER -> st[k].t = "absent"

----------------------------------------------------------------------------
\* C11 (as claimed): bind(obj) returns the SimpleBound it was called on, so
\* sb.bind(a).bind(b) binds both a and b to sb.
C11_BindReturnsThis ==
    BuiltFromPlainData =>
        /\ last.err = ErrNone
        /\ \A a \in ObjRefs(objs), b \in ObjRefs(objs) :
              LET first == Bind(objs, insts, last.ret, a)
                  second == Bind(first.objs, first.insts, first.ret, b)
              IN  /\ first.err = ErrNone
                  /\ first.ret = last.ret
                  /\ second.err = ErrNone
                  /\ second.ret = last.ret

\* C12 (as claimed): unbind(obj) on the SimpleBound obj was bound to returns
\* obj with its last-synchronized values; later writes no longer reach obj
\* and still reach boundObject; with every target unbound the instance is as
\* constructed.
C12_UnbindDetaches ==
    BuiltFromPlainData =>
        /\ last.err = ErrNone
        /\ \A obj \in ObjRefs(objs), k \in PrimitiveKeys(objs, last.arg),
              v \in Written :
              LET b == Bind(objs, insts, last.ret, obj)
                  u == Unbind(b.objs, b.insts, last.ret, obj)
                  w == WriteKey(u.objs, u.insts, last.ret, k, v)
                  bo == insts[last.ret.id].boundObject
              IN  /\ b.err = ErrNone
                  /\ u.err = ErrNone
                  /\ u.ret = obj
                  /\ u.objs[obj.id] = b.objs[obj.id]
                  /\ u.insts = insts
                  /\ w.objs[obj.id] = u.objs[obj.id]
                  /\ w.objs[bo.id].f[k] = v

\* C13 (as claimed): in every state the __bound__ back-reference of a
\* boundObject is hidden: non-enumerable, its value the owning instance, so
\* the enumerable keys of boundObject are those of the prototype shape.
C13_BackRefHidden ==
    \A n \in 1..Len(insts) :
        LET bo == objs[insts[n].boundObject.id]
        IN  /\ bo.f["__bound__"] = InstRef(n)
            /\ "__bound__" \in bo.ne
            /\ {k \in Keys : bo.f[k] # Absent} \ bo.ne
                  = {k \in Keys : insts[n].storage[k].t # "absent"}

\* C14 (as claimed): storage congruence.  After construction, and after any
\* bind and write, storage has the keys and the nesting of the snapshot: a
\* Binding at every primitive key, a tree at every object key, no other key.
C14_StorageCongruent ==
    BuiltFromPlainData =>
        /\ last.err = ErrNone
        /\ Congruent(objs, insts[last.ret.id].storage, last.arg)
        /\ \A target \in Targets, k \in PrimitiveKeys(objs, last.arg),
              v \in Written :
              LET b == Bind(objs, insts, last.ret, target)
                  w == WriteKey(b.objs, b.insts, last.ret, k, v)
              IN  /\ Congruent(objs, b.insts[last.ret.id].storage, last.arg)
                  /\ Congruent(objs, w.insts[last.ret.id].storage, last.arg)

\* C15 (as claimed): mirror consistency.  In every state, and after every
\* construction, bind and write that follows, each (target, key) registered
\* with a Binding holds the Binding's current value.
C15_MirrorsConsistent ==
    /\ \A n \in 1..Len(insts) : MirrorsHold(objs, insts[n].storage)
    /\ BuiltFromPlainData =>
          /\ last.err = ErrNone
          /\ \A target \in Targets, k \in PrimitiveKeys(objs, last.arg),
                v \in Written :
                LET b == Bind(objs, insts, last.ret, target)
                    w == WriteKey(b.objs, b.insts, last.ret, k, v)
                IN  /\ b.err = ErrNone
                    /\ MirrorsHold(b.objs, b.insts[last.ret.id].storage)
                    /\ MirrorsHold(w.objs, w.insts[last.ret.id].storage)

\* C16 (as claimed): propagation order.  The mirrors of a Binding are
\* boundObject first and then the targets in the order of the bind calls; a
\* write assigns to them in that order, and all hold the value when it returns.
C16_RegistrationOrder ==
    BuiltFromPlainData =>
        /\ last.err = ErrNone
        /\ \A t1 \in Targets, t2 \in Targets,
              k \in PrimitiveKeys(objs, last.arg), v \in Written :
              LET b1 == Bind(objs, insts, last.ret, t1)
                  b2 == Bind(b1.objs, b1.insts, last.ret, t2)
                  cell == b2.insts[last.ret.id].storage[k]
                  bo == insts[last.ret.id].boundObject
                  w == WriteKey(b2.objs, b2.insts, last.ret, k, v)
              IN  /\ b1.err = ErrNone /\ b2.err = ErrNone
                  /\ cell.masters = <<<<bo, k>>, <<t1, k>>, <<t2, k>>>>
                  /\ \A n \in 1..Len(cell.masters) :
                        Propagate(b2.objs, cell.masters, n, v)
                            [cell.masters[n][1].id].f[k] = v
                  /\ \A o \in {bo, t1, t2} : w.objs[o.id].f[k] = v

\* C17 (as claimed): idempotent registration.  Binding the same target twice
\* and then writing leaves target, boundObject and the Binding's value as
\* binding it once does, and target[k] holds the value written.
C17_RebindIdempotent ==
    BuiltFromPlainData =>
        /\ last.err = ErrNone
        /\ \A target \in Targets, k \in PrimitiveKeys(objs, last.arg),
              v \in Written :
              LET b1 == Bind(objs, insts, last.ret, target)
                  b2 == Bind(b1.objs, b1.insts, last.ret, target)
                  once == WriteKey(b1.objs, b1.insts, last.ret, k, v)
                  twice == WriteKey(b2.objs, b2.insts, last.ret, k, v)
              IN  /\ b1.err = ErrNone /\ b2.err = ErrNone
                  /\ twice.objs = once.objs
                  /\ twice.insts[last.ret.id].storage[k].value
                        = once.insts[last.ret.id].storage[k].value
                  /\ twice.objs[target.id].f[k] = v

\* C18 (as claimed): one-hop frame condition.  A write through the Binding of
\* key k changes key k of the instance's boundObject and of its bound targets
\* only: no other key, no other object, no other Binding, no other instance.
C18_WriteFrame ==
    BuiltFromPlainData =>
        /\ last.err = ErrNone
        /\ \A target \in Targets, k \in PrimitiveKeys(objs, last.arg),
              v \in Written :
              LET b == Bind(objs, insts, last.ret, target)
                  w == WriteKey(b.objs, b.insts, last.ret, k, v)
                  bo == insts[last.ret.id].boundObject
              IN  /\ b.err = ErrNone
                  /\ w.objs[bo.id].f[k] = v /\ w.objs[target.id].f[k] = v
                  /\ \A o \in ObjRefs(objs), j \in Keys :
                        (o \notin {bo, target} \/ j # k) =>
                            w.objs[o.id].f[j] = b.objs[o.id].f[j]
                  /\ \A j \in Keys \ {k} :
                        w.insts[last.ret.id].storage[j]
                            = b.insts[last.ret.id].storage[j]
                  /\ \A n \in 1..Len(insts) :
                        n # last.ret.id => w.insts[n] = insts[n]

\* C19 (as claimed): the prototype is only copied.  Construction gives a
\* boundObject that is another object holding the prototype's values; the
\* prototype keeps its keys and values through construction, bind and write,
\* is no registered mirror, and isBound(prototype) stays false.
C19_PrototypeOnlyCopied ==
    BuiltFromPlainData =>
        /\ last.err = ErrNone
        /\ insts[last.ret.id].boundObject # last.arg
        /\ \A k \in PrimitiveKeys(objs, last.arg) :
              objs[insts[last.ret.id].boundObject.id].f[k]
                  = objs[last.arg.id].f[k]
        /\ IsBound(objs, last.arg).ret = Bool(FALSE)
        /\ \A target \in Targets, k \in PrimitiveKeys(objs, last.arg),
              v \in Written :
              LET b == Bind(objs, insts, last.ret, target)
                  w == WriteKey(b.objs, b.insts, last.ret, k, v)
              IN  /\ w.objs[last.arg.id] = objs[last.arg.id]
                  /\ IsBound(w.objs, last.arg).ret = Bool(FALSE)
                  /\ \A j \in Keys :
                        \A n \in 1..Len(w.insts[last.ret.id].storage[j].masters) :
                            w.insts[last.ret.id].storage[j].masters[n][1]
                                # last.arg

\* C20 (as claimed): isBound is total.  Every call, whatever the argument,
\* returns a boolean and raises nothing; so new BaseBound(proto) raises
\* nothing but one of the two BoundErrors.
C20_IsBoundTotal ==
    /\ last.op = "isBound" =>
          last.err = ErrNone /\ last.ret \in {Bool(TRUE), Bool(FALSE)}
    /\ last.op = "new BaseBound" =>
          last.err \in {ErrNone, ErrOnlyObject, ErrRebind}

====
